---- MODULE Spec2Model ----
\* RendererCanvas2d (frontend/src/pages/Exercise/renderer_canvas2d.js): the
\* canvas renderer of pose-estimation results, as a state machine over the 2D
\* context it draws on.  Every call the renderer makes on the context is
\* appended to a log, together with the style and transform in effect.
\*
\* Scores are confidences in [0,1]; they are counted here in tenths, so the
\* threshold 0.3 is 3 and the default score 1 is 10.
EXTENDS Integers, Sequences, FiniteSets, TLC

\* ---------------------------------------------------------------- bounds
MaxPoses == 3        \* longest list of poses passed to draw
MaxFlips == 1        \* most flip calls in one behaviour
CanvasWidth == 6     \* canvas.width at construction
CanvasHeight == 5    \* canvas.height at construction

\* ------------------------------------------------------------- constants
DEFAULT_LINE_WIDTH == 2
DEFAULT_RADIUS == 4
SCORE_THRESHOLD == 3
DefaultScore == 10
NumKeypoints == 17

\* Variant: the table with a wrist-to-wrist pair added.
SKELETON_CONNECTIONS_extra ==
  << <<0, 1>>, <<0, 2>>, <<1, 3>>, <<2, 4>>, <<5, 6>>, <<5, 7>>, <<7, 9>>,
     <<6, 8>>, <<8, 10>>, <<5, 11>>, <<6, 12>>, <<11, 12>>, <<11, 13>>,
     <<13, 15>>, <<12, 14>>, <<14, 16>>, <<9, 10>> >>

SKELETON_CONNECTIONS ==
  << <<0, 1>>, <<0, 2>>, <<1, 3>>, <<2, 4>>, <<5, 6>>, <<5, 7>>, <<7, 9>>,
     <<6, 8>>, <<8, 10>>, <<5, 11>>, <<6, 12>>, <<11, 12>>, <<11, 13>>,
     <<13, 15>>, <<12, 14>>, <<14, 16>> >>

KEYPOINT_SIDES ==
  [ middle |-> <<0>>,
    left   |-> <<1, 3, 5, 7, 9, 11, 13, 15>>,
    right  |-> <<2, 4, 6, 8, 10, 12, 14, 16>> ]

\* ------------------------------------------------------- JavaScript values
\* A value is a record: t is its type, v its payload.
Num(n) == [t |-> "number", v |-> n]
NullScore == [t |-> "null", v |-> 0]
UndefScore == [t |-> "undefined", v |-> 0]
Arr(s) == [t |-> "array", v |-> s]
NullArr == [t |-> "null", v |-> <<>>]
UndefArr == [t |-> "undefined", v |-> <<>>]
NoKeypoint == [t |-> "undefined", x |-> 0, y |-> 0, score |-> UndefScore]

\* `value != null`: false for null and for undefined.
NotNull(val) == val.t \notin {"null", "undefined"}

\* keypoints[i] of a JavaScript array (0-based): undefined past the end.
At(keypoints, i) ==
  IF i < Len(keypoints) THEN keypoints[i + 1] ELSE NoKeypoint

\* ------------------------------------------------------------------ state
VARIABLES
  detected,    \* the pose list the estimator produced for the frame on show
  videoWidth, videoHeight,     \* this.videoWidth, this.videoHeight
  fillStyle, strokeStyle, lineWidth, transform,   \* state of this.ctx
  call,        \* the most recent call on the renderer and its arguments
  log,         \* the context calls that call issued, in order
  err,         \* TRUE when that call ended by throwing
  lastDraw,    \* history: input and log of the most recent draw call
  prevSame,    \* history: the draw before, when this call is a draw of the same input
  flips        \* history: the widths passed to flip so far

vars == << detected, videoWidth, videoHeight, fillStyle, strokeStyle, lineWidth,
           transform, call, log, err, lastDraw, prevSame, flips >>

\* --------------------------------------------------------- the 2D context
\* The transform maps a logical point (x, y) to the surface point
\* (a*x + e, d*y + f).
Identity == [a |-> 1, d |-> 1, e |-> 0, f |-> 0]
TX(tf, x) == tf.a * x + tf.e
TY(tf, y) == tf.d * y + tf.f

Blank ==
  [op |-> "", x |-> 0, y |-> 0, x2 |-> 0, y2 |-> 0, r |-> 0,
   color |-> "", width |-> 0]

\* Append one context call to the log, with the state it is issued in.
Emit(s, c) ==
  [s EXCEPT !.log = Append(@,
     [op |-> c.op, x |-> c.x, y |-> c.y, x2 |-> c.x2, y2 |-> c.y2,
      r |-> c.r, color |-> c.color, width |-> c.width,
      fill |-> s.fillStyle, stroke |-> s.strokeStyle, lw |-> s.lineWidth,
      sx |-> TX(s.transform, c.x), sy |-> TY(s.transform, c.y),
      sx2 |-> TX(s.transform, c.x2), sy2 |-> TY(s.transform, c.y2),
      pose |-> s.pose, i |-> s.i, j |-> s.j])]

SetFillStyle(s, c) ==
  Emit([s EXCEPT !.fillStyle = c], [Blank EXCEPT !.op = "fillStyle", !.color = c])
SetStrokeStyle(s, c) ==
  Emit([s EXCEPT !.strokeStyle = c], [Blank EXCEPT !.op = "strokeStyle", !.color = c])
SetLineWidth(s, w) ==
  Emit([s EXCEPT !.lineWidth = w], [Blank EXCEPT !.op = "lineWidth", !.width = w])

\* ctx.drawImage(video, x, y, w, h): (x2, y2) is the opposite corner.
DrawImage(s, x, y, w, h) ==
  Emit(s, [Blank EXCEPT !.op = "drawImage", !.x = x, !.y = y,
                        !.x2 = x + w, !.y2 = y + h])
ClearRect(s, x, y, w, h) ==
  Emit(s, [Blank EXCEPT !.op = "clearRect", !.x = x, !.y = y,
                        !.x2 = x + w, !.y2 = y + h])
\* circle.arc(x, y, r, 0, 2*PI) followed by ctx.fill(circle) / ctx.stroke(circle)
FillCircle(s, x, y, r) ==
  Emit(s, [Blank EXCEPT !.op = "fill", !.x = x, !.y = y, !.r = r])
StrokeCircle(s, x, y, r) ==
  Emit(s, [Blank EXCEPT !.op = "stroke", !.x = x, !.y = y, !.r = r])
\* beginPath(); moveTo(x, y); lineTo(x2, y2); stroke()
StrokeLine(s, x, y, x2, y2) ==
  Emit(s, [Blank EXCEPT !.op = "line", !.x = x, !.y = y, !.x2 = x2, !.y2 = y2])
Translate(s, tx, ty) ==
  Emit([s EXCEPT !.transform.e = @ + s.transform.a * tx,
                 !.transform.f = @ + s.transform.d * ty],
       [Blank EXCEPT !.op = "translate", !.x = tx, !.y = ty])
Scale(s, kx, ky) ==
  Emit([s EXCEPT !.transform.a = @ * kx, !.transform.d = @ * ky],
       [Blank EXCEPT !.op = "scale", !.x = kx, !.y = ky])

\* A TypeError: the call in progress is abandoned.
Throw(s) == [s EXCEPT !.err = TRUE]

\* ------------------------------------------------------------ the renderer
\* Variant: the axis is flipped before the origin is moved.
flip_scaleFirst(s, width) == Translate(Scale(s, -1, 1), width, 0)

flip(s, width) == Scale(Translate(s, width, 0), -1, 1)

drawCtx(s) == DrawImage(s, 0, 0, videoWidth, videoHeight)

clearCtx(s) == ClearRect(s, 0, 0, videoWidth, videoHeight)

\* Variant: a score equal to the threshold is not drawn.
drawKeypoint_strict(s, keypoint) ==
  IF keypoint.t = "undefined" THEN Throw(s)
  ELSE LET score == IF NotNull(keypoint.score) THEN keypoint.score.v
                    ELSE DefaultScore
       IN  IF score > SCORE_THRESHOLD
           THEN StrokeCircle(FillCircle(s, keypoint.x, keypoint.y, DEFAULT_RADIUS),
                             keypoint.x, keypoint.y, DEFAULT_RADIUS)
           ELSE s

\* Variant: a missing keypoint is skipped instead of raising a TypeError.
drawKeypoint_skipMissing(s, keypoint) ==
  IF keypoint.t = "undefined" THEN s
  ELSE LET score == IF NotNull(keypoint.score) THEN keypoint.score.v
                    ELSE DefaultScore
       IN  IF score >= SCORE_THRESHOLD
           THEN StrokeCircle(FillCircle(s, keypoint.x, keypoint.y, DEFAULT_RADIUS),
                             keypoint.x, keypoint.y, DEFAULT_RADIUS)
           ELSE s

drawKeypoint(s, keypoint) ==
  IF keypoint.t = "undefined" THEN Throw(s)
  ELSE LET score == IF NotNull(keypoint.score) THEN keypoint.score.v
                    ELSE DefaultScore
       IN  IF score >= SCORE_THRESHOLD
           THEN StrokeCircle(FillCircle(s, keypoint.x, keypoint.y, DEFAULT_RADIUS),
                             keypoint.x, keypoint.y, DEFAULT_RADIUS)
           ELSE s

\* for (const i of side) this.drawKeypoint(keypoints[i]);  from position k on
RECURSIVE drawSide(_, _, _, _)
drawSide(s, keypoints, side, k) ==
  IF k > Len(side) \/ s.err THEN s
  ELSE drawSide(drawKeypoint([s EXCEPT !.i = side[k], !.j = -1],
                             At(keypoints, side[k])),
                keypoints, side, k + 1)

\* Variant: the fill colour of the middle group is never set.
drawKeypoints_noRed(s, keypoints) ==
  LET s1 == SetLineWidth(SetStrokeStyle(s, "White"), DEFAULT_LINE_WIDTH)
      s2 == drawSide(s1, keypoints, KEYPOINT_SIDES.middle, 1)
      s3 == IF s2.err THEN s2
            ELSE drawSide(SetFillStyle(s2, "Green"), keypoints, KEYPOINT_SIDES.left, 1)
      s4 == IF s3.err THEN s3
            ELSE drawSide(SetFillStyle(s3, "Orange"), keypoints, KEYPOINT_SIDES.right, 1)
  IN  s4

\* Variant: the stroke colour is left to whatever it was.
drawKeypoints_noStroke(s, keypoints) ==
  LET s1 == SetLineWidth(s, DEFAULT_LINE_WIDTH)
      s2 == drawSide(SetFillStyle(s1, "Red"), keypoints, KEYPOINT_SIDES.middle, 1)
      s3 == IF s2.err THEN s2
            ELSE drawSide(SetFillStyle(s2, "Green"), keypoints, KEYPOINT_SIDES.left, 1)
      s4 == IF s3.err THEN s3
            ELSE drawSide(SetFillStyle(s3, "Orange"), keypoints, KEYPOINT_SIDES.right, 1)
  IN  s4

drawKeypoints(s, keypoints) ==
  LET s1 == SetLineWidth(SetStrokeStyle(s, "White"), DEFAULT_LINE_WIDTH)
      s2 == drawSide(SetFillStyle(s1, "Red"), keypoints, KEYPOINT_SIDES.middle, 1)
      s3 == IF s2.err THEN s2
            ELSE drawSide(SetFillStyle(s2, "Green"), keypoints, KEYPOINT_SIDES.left, 1)
      s4 == IF s3.err THEN s3
            ELSE drawSide(SetFillStyle(s3, "Orange"), keypoints, KEYPOINT_SIDES.right, 1)
  IN  s4

\* Variant: only the first endpoint's score is tested.
drawConnection_firstOnly(s, keypoints, i, j) ==
  LET kp1 == At(keypoints, i)
      kp2 == At(keypoints, j)
  IN  IF kp1.t = "undefined" \/ kp2.t = "undefined" THEN Throw(s)
      ELSE LET score1 == IF NotNull(kp1.score) THEN kp1.score.v ELSE DefaultScore
           IN  IF score1 >= SCORE_THRESHOLD
               THEN StrokeLine(s, kp1.x, kp1.y, kp2.x, kp2.y)
               ELSE s

\* The body of the forEach callback for one pair [i, j].
drawConnection(s, keypoints, i, j) ==
  LET kp1 == At(keypoints, i)
      kp2 == At(keypoints, j)
  IN  IF kp1.t = "undefined" \/ kp2.t = "undefined" THEN Throw(s)
      ELSE LET score1 == IF NotNull(kp1.score) THEN kp1.score.v ELSE DefaultScore
               score2 == IF NotNull(kp2.score) THEN kp2.score.v ELSE DefaultScore
           IN  IF score1 >= SCORE_THRESHOLD /\ score2 >= SCORE_THRESHOLD
               THEN StrokeLine(s, kp1.x, kp1.y, kp2.x, kp2.y)
               ELSE s

RECURSIVE forEachConnection(_, _, _)
forEachConnection(s, keypoints, k) ==
  IF k > Len(SKELETON_CONNECTIONS) \/ s.err THEN s
  ELSE LET c == SKELETON_CONNECTIONS[k]
       IN  forEachConnection(
             drawConnection([s EXCEPT !.i = c[1], !.j = c[2]], keypoints, c[1], c[2]),
             keypoints, k + 1)

drawSkeleton(s, keypoints) ==
  LET s1 == SetLineWidth(SetStrokeStyle(SetFillStyle(s, "White"), "White"),
                         DEFAULT_LINE_WIDTH)
  IN  forEachConnection(s1, keypoints, 1)

\* Variant: keypoints is not tested for null; drawKeypoints then sets its
\* styles and fails reading keypoints[0].
drawResult_noNullCheck(s, pose) ==
  IF NotNull(pose.keypoints)
  THEN LET s1 == drawKeypoints(s, pose.keypoints.v)
       IN  IF s1.err THEN s1 ELSE drawSkeleton(s1, pose.keypoints.v)
  ELSE Throw(SetFillStyle(SetLineWidth(SetStrokeStyle(s, "White"),
                                       DEFAULT_LINE_WIDTH), "Red"))

\* Variant: the skeleton is drawn before the keypoints.
drawResult_skeletonFirst(s, pose) ==
  IF NotNull(pose.keypoints)
  THEN LET s1 == drawSkeleton(s, pose.keypoints.v)
       IN  IF s1.err THEN s1 ELSE drawKeypoints(s1, pose.keypoints.v)
  ELSE s

drawResult(s, pose) ==
  IF NotNull(pose.keypoints)
  THEN LET s1 == drawKeypoints(s, pose.keypoints.v)
       IN  IF s1.err THEN s1 ELSE drawSkeleton(s1, pose.keypoints.v)
  ELSE s

\* for (const pose of poses) this.drawResult(pose);  from position k on
RECURSIVE drawResults(_, _, _)
drawResults(s, poses, k) ==
  IF k > Len(poses) \/ s.err THEN s
  ELSE drawResults(drawResult([s EXCEPT !.pose = k, !.i = -1, !.j = -1], poses[k]),
                   poses, k + 1)

\* Variant: poses is not tested for null; iterating null is a TypeError.
draw_noNullCheck(s, poses) ==
  LET s1 == drawCtx(s)
  IN  IF poses.t = "array" THEN drawResults(s1, poses.v, 1) ELSE Throw(s1)

draw(s, poses) ==
  LET s1 == drawCtx(s)
  IN  IF poses.t = "array" /\ Len(poses.v) > 0
      THEN drawResults(s1, poses.v, 1)
      ELSE s1

\* ----------------------------------------------------------------- inputs
\* Keypoint i of a pose sits at (i + dx, 2*i + 1).
Keypoint(i, dx, score) ==
  [t |-> "object", x |-> i + dx, y |-> 2 * i + 1, score |-> score]

\* A pose of n keypoints whose scores are given by the function sc on 0..16.
Pose(sc, n, dx) ==
  [keypoints |-> Arr([k \in 1..n |-> Keypoint(k - 1, dx, sc[k - 1])])]

Indices == 0..(NumKeypoints - 1)

ScoreCycle == << Num(10), Num(2), NullScore, Num(3), UndefScore, Num(0), Num(7) >>

AllOne == [i \in Indices |-> Num(10)]
WristLow == [i \in Indices |-> IF i = 9 THEN Num(1) ELSE Num(10)]
Cycled(shift) ==
  [i \in Indices |-> ScoreCycle[((i + shift) % Len(ScoreCycle)) + 1]]

FullPose == Pose(AllOne, NumKeypoints, 0)
WristLowPose == Pose(WristLow, NumKeypoints, 0)
CycledPose(shift) == Pose(Cycled(shift), NumKeypoints, shift)
ShortPose(n) == Pose(Cycled(3), n, 1)
NullPose == [keypoints |-> NullArr]
UndefPose == [keypoints |-> UndefArr]

SinglePoses ==
  {FullPose, WristLowPose, NullPose, UndefPose}
    \cup {CycledPose(shift) : shift \in 0..(Len(ScoreCycle) - 1)}
    \cup {ShortPose(n) : n \in 0..(NumKeypoints - 1)}

\* In a longer list, the pose at position k is CycledPose(k), except for at
\* most one position that holds a special pose.
SpecialPoses == {NullPose, ShortPose(2), ShortPose(16), FullPose}

ListsOfLen(n) ==
  {[k \in 1..n |-> CycledPose(k)]}
    \cup {[k \in 1..n |-> IF k = at THEN p ELSE CycledPose(k)] :
            at \in 1..n, p \in SpecialPoses}

PoseLists ==
  {NullArr, Arr(<<>>)}
    \cup {Arr(<<p>>) : p \in SinglePoses}
    \cup UNION {{Arr(l) : l \in ListsOfLen(n)} : n \in 2..MaxPoses}

\* Lists every frame may come with: nothing detected, or one full pose.
CommonLists == {NullArr, Arr(<<FullPose>>)}

\* Styles left on the context by whoever drew on the canvas before:
\* << fillStyle, strokeStyle, lineWidth >>.
PriorStyles == { <<"#000000", "#000000", 1>>, <<"Blue", "Orange", 3>> }
FlipWidths == {CanvasWidth, 2 * CanvasWidth}

NoPoses == [t |-> "none", v |-> <<>>]
NoDraw == [valid |-> FALSE, poses |-> NoPoses, log |-> <<>>, err |-> FALSE]

\* ---------------------------------------------------------------- actions
\* The context, and the renderer's position, at the start of a call.
Begin ==
  [fillStyle |-> fillStyle, strokeStyle |-> strokeStyle, lineWidth |-> lineWidth,
   transform |-> transform, log |-> <<>>, err |-> FALSE,
   pose |-> 0, i |-> -1, j |-> -1]

Commit(s) ==
  /\ fillStyle' = s.fillStyle
  /\ strokeStyle' = s.strokeStyle
  /\ lineWidth' = s.lineWidth
  /\ transform' = s.transform
  /\ log' = s.log
  /\ err' = s.err

\* new RendererCanvas2d(canvas): the canvas' context may have been drawn on
\* before, so its styles are arbitrary; its transform is the identity.
Init ==
  /\ detected \in PoseLists
  /\ videoWidth = CanvasWidth
  /\ videoHeight = CanvasHeight
  /\ \E st \in PriorStyles :
       fillStyle = st[1] /\ strokeStyle = st[2] /\ lineWidth = st[3]
  /\ transform = Identity
  /\ call = [name |-> "new", poses |-> NoPoses, width |-> 0]
  /\ log = <<>>
  /\ err = FALSE
  /\ lastDraw = NoDraw
  /\ prevSame = NoDraw
  /\ flips = <<>>

\* The logical content of a log: what was issued, without where it landed.
\* The styles in effect are kept where something is painted with them.
Paints(c) == c.op \in {"fill", "stroke", "line"}

Logical(l) ==
  [k \in 1..Len(l) |->
     [op |-> l[k].op, x |-> l[k].x, y |-> l[k].y, x2 |-> l[k].x2, y2 |-> l[k].y2,
      r |-> l[k].r, color |-> l[k].color, width |-> l[k].width,
      fill |-> IF Paints(l[k]) THEN l[k].fill ELSE "",
      stroke |-> IF Paints(l[k]) THEN l[k].stroke ELSE "",
      lw |-> IF Paints(l[k]) THEN l[k].lw ELSE 0]]

Draw ==
  \E poses \in {detected} \cup CommonLists :
    LET s == draw(Begin, poses)
    IN  /\ Commit(s)
        /\ call' = [name |-> "draw", poses |-> poses, width |-> 0]
        /\ lastDraw' = [valid |-> TRUE, poses |-> poses,
                        log |-> Logical(s.log), err |-> s.err]
        /\ prevSame' = IF lastDraw.valid /\ lastDraw.poses = poses
                       THEN lastDraw ELSE NoDraw
        /\ UNCHANGED << detected, videoWidth, videoHeight, flips >>

Clear ==
  /\ Commit(clearCtx(Begin))
  /\ call' = [name |-> "clearCtx", poses |-> NoPoses, width |-> 0]
  /\ prevSame' = NoDraw
  /\ UNCHANGED << detected, videoWidth, videoHeight, lastDraw, flips >>

Flip ==
  /\ Len(flips) < MaxFlips
  /\ \E width \in FlipWidths :
       /\ Commit(flip(Begin, width))
       /\ call' = [name |-> "flip", poses |-> NoPoses, width |-> width]
       /\ flips' = Append(flips, width)
  /\ prevSame' = NoDraw
  /\ UNCHANGED << detected, videoWidth, videoHeight, lastDraw >>

Next == Draw \/ Clear \/ Flip

Spec == Init /\ [][Next]_vars

\* ------------------------------------------------- reading the last call
IsDraw == call.name = "draw"

\* The poses of the last draw call (none when poses was null).
Given == IF IsDraw /\ call.poses.t = "array" THEN call.poses.v ELSE <<>>

HasKeypoints(pose) == pose.keypoints.t = "array"
WellFormed(pose) == HasKeypoints(pose) /\ Len(pose.keypoints.v) = 17
TooShort(pose) == HasKeypoints(pose) /\ Len(pose.keypoints.v) < 17

\* Pose k is reached when no pose before it is too short.
Reached(k) == \A m \in 1..(k - 1) : ~TooShort(Given[m])

\* The score of a keypoint, an absent or null score counting as 1 (ten tenths),
\* and the visibility test against 0.3 (three tenths).
Resolved(kp) == IF kp.score.t = "number" THEN kp.score.v ELSE 10
Visible(kp) == Resolved(kp) >= 3

\* The entries of the log with operation op issued for pose k.
Issued(op, k) ==
  LET Test(c) == c.op = op /\ c.pose = k IN SelectSeq(log, Test)

IssuedFor(k) ==
  LET Test(c) == c.pose = k IN SelectSeq(log, Test)

StyleOps == {"fillStyle", "strokeStyle", "lineWidth"}

\* The order in which drawKeypoints visits the indices, and the colour of each.
DrawOrder == <<0, 1, 3, 5, 7, 9, 11, 13, 15, 2, 4, 6, 8, 10, 12, 14, 16>>
Rank(i) == CHOOSE r \in 1..17 : DrawOrder[r] = i
ColorOf(i) == IF i = 0 THEN "Red" ELSE IF i % 2 = 1 THEN "Green" ELSE "Orange"

InSeq(x, s) == \E k \in 1..Len(s) : s[k] = x

\* --------------------------------------------------------------------- C1
\* C1: for every pose of 17 keypoints that a render reaches, the line segments
\* drawSkeleton strokes are exactly the pairs of the 16-entry table whose two
\* endpoints both have resolved score >= 0.3, one segment per such pair, from
\* keypoint i to keypoint j, in table order.
C1_SkeletonSegments ==
  /\ Len(SKELETON_CONNECTIONS) = 16
  /\ \A k \in 1..Len(Given) :
       (Reached(k) /\ WellFormed(Given[k])) =>
         LET kps == Given[k].keypoints.v
             Both(c) == Visible(kps[c[1] + 1]) /\ Visible(kps[c[2] + 1])
             pairs == SelectSeq(SKELETON_CONNECTIONS, Both)
             lines == Issued("line", k)
         IN  /\ Len(lines) = Len(pairs)
             /\ \A m \in 1..Len(lines) :
                  /\ lines[m].i = pairs[m][1]
                  /\ lines[m].j = pairs[m][2]
                  /\ lines[m].x = kps[pairs[m][1] + 1].x
                  /\ lines[m].y = kps[pairs[m][1] + 1].y
                  /\ lines[m].x2 = kps[pairs[m][2] + 1].x
                  /\ lines[m].y2 = kps[pairs[m][2] + 1].y

\* A pose was rendered in which some table pairs were drawn and others, with
\* an endpoint below the threshold, were not.
C1_Witness ==
  \E k \in 1..Len(Given) :
    /\ Reached(k) /\ WellFormed(Given[k])
    /\ Len(Issued("line", k)) \in 1..15
    /\ \E i \in 1..17 : Given[k].keypoints.v[i].score = Num(3)

\* --------------------------------------------------------------------- C2
\* C2: for every keypoint of a rendered pose, drawKeypoint fills and strokes
\* exactly one circle of radius 4 centred at (x, y) when the resolved score is
\* >= 0.3 (absent/null resolves to 1, and exactly 0.3 is drawn), and issues no
\* fill and no stroke for it otherwise.
C2_KeypointCircle ==
  \A k \in 1..Len(Given) :
    (Reached(k) /\ WellFormed(Given[k])) =>
      \A i \in 0..16 :
        LET kp == Given[k].keypoints.v[i + 1]
            Mine(c) == c.i = i /\ c.j = -1
            fills == SelectSeq(Issued("fill", k), Mine)
            strokes == SelectSeq(Issued("stroke", k), Mine)
        IN  IF Visible(kp)
            THEN /\ Len(fills) = 1 /\ Len(strokes) = 1
                 /\ fills[1].x = kp.x /\ fills[1].y = kp.y /\ fills[1].r = 4
                 /\ strokes[1].x = kp.x /\ strokes[1].y = kp.y /\ strokes[1].r = 4
            ELSE Len(fills) = 0 /\ Len(strokes) = 0

\* A pose was rendered with a keypoint at exactly 0.3 and one without a score
\* (both drawn) and one below 0.3 (not drawn).
C2_Witness ==
  \E k \in 1..Len(Given) :
    /\ Reached(k) /\ WellFormed(Given[k])
    /\ \E a, b, c \in 0..16 :
         /\ Given[k].keypoints.v[a + 1].score = Num(3)
         /\ Given[k].keypoints.v[b + 1].score.t \in {"null", "undefined"}
         /\ Given[k].keypoints.v[c + 1].score = Num(2)
         /\ \E m \in 1..Len(log) : log[m].op = "fill" /\ log[m].pose = k /\ log[m].i = a
         /\ \E m \in 1..Len(log) : log[m].op = "fill" /\ log[m].pose = k /\ log[m].i = b
         /\ \A m \in 1..Len(log) : ~(log[m].op = "fill" /\ log[m].pose = k /\ log[m].i = c)

\* --------------------------------------------------------------------- C3
\* C3: every index 0..16 is in exactly one of the groups middle, left, right
\* (middle = {0}, left = the odd indices, right = the even indices from 2), and
\* whenever a keypoint circle is filled the fill colour in effect is its
\* group's colour (Red, Green, Orange), for the first pose and for later ones.
InGroup(i, side) == InSeq(i, side)

C3_GroupColors ==
  /\ \A i \in 0..16 :
       /\ InGroup(i, KEYPOINT_SIDES.middle) <=> i = 0
       /\ InGroup(i, KEYPOINT_SIDES.left) <=> i % 2 = 1
       /\ InGroup(i, KEYPOINT_SIDES.right) <=> (i % 2 = 0 /\ i > 0)
  /\ Len(KEYPOINT_SIDES.middle) + Len(KEYPOINT_SIDES.left)
       + Len(KEYPOINT_SIDES.right) = 17
  /\ \A m \in 1..Len(log) :
       log[m].op = "fill" => log[m].fill = ColorOf(log[m].i)

\* The nose of a second pose was filled after the first pose's skeleton had set
\* the fill colour to White.
C3_Witness ==
  \E m, n \in 1..Len(log) :
    /\ m < n
    /\ log[m].op = "line" /\ log[m].pose = 1 /\ log[m].fill = "White"
    /\ log[n].op = "fill" /\ log[n].pose = 2 /\ log[n].i = 0

\* --------------------------------------------------------------------- C4
\* C4: a render whose poses are null or an empty list issues exactly one
\* context call, the frame drawn at (0,0) with the width and height recorded at
\* construction; it draws no circle and no line, leaves fill colour, stroke
\* colour and line width as they were, and raises no error.
C4_NoPoses ==
  (IsDraw /\ (call.poses.t = "null" \/ call.poses = Arr(<<>>))) =>
    /\ Len(log) = 1
    /\ log[1].op = "drawImage"
    /\ log[1].x = 0 /\ log[1].y = 0
    /\ log[1].x2 = CanvasWidth /\ log[1].y2 = CanvasHeight
    /\ log[1].fill = fillStyle /\ log[1].stroke = strokeStyle
    /\ log[1].lw = lineWidth
    /\ ~err

\* A render without poses came after a render that had left the fill colour
\* White: the frame was drawn and the styles stayed.
C4_Witness ==
  /\ IsDraw /\ (call.poses.t = "null" \/ call.poses = Arr(<<>>))
  /\ Len(log) = 1 /\ log[1].op = "drawImage"
  /\ fillStyle = "White"

\* --------------------------------------------------------------------- C5
\* C5: one pose with all 17 scores 1 gives 17 circles and the 16 segments of the
\* table; one pose with only keypoint 9 below 0.3 gives 16 circles, none for
\* index 9, and 15 segments, the pair (7,9) being the only one missing.
Count(op) == Len(Issued(op, 1))

Segments == {<<log[m].i, log[m].j>> : m \in {n \in 1..Len(log) : log[n].op = "line"}}

TablePairs ==
  { <<0, 1>>, <<0, 2>>, <<1, 3>>, <<2, 4>>, <<5, 6>>, <<5, 7>>, <<7, 9>>,
    <<6, 8>>, <<8, 10>>, <<5, 11>>, <<6, 12>>, <<11, 12>>, <<11, 13>>,
    <<13, 15>>, <<12, 14>>, <<14, 16>> }

AllAtOne(pose) ==
  WellFormed(pose) /\ \A i \in 1..17 : pose.keypoints.v[i].score = Num(10)

OnlyWristLow(pose) ==
  /\ WellFormed(pose)
  /\ \A i \in 1..17 :
       IF i = 10 THEN pose.keypoints.v[i].score.t = "number"
                      /\ pose.keypoints.v[i].score.v < 3
       ELSE pose.keypoints.v[i].score = Num(10)

C5_Scenarios ==
  /\ (Len(Given) = 1 /\ AllAtOne(Given[1])) =>
       /\ Count("fill") = 17 /\ Count("stroke") = 17
       /\ Count("line") = 16
       /\ Segments = TablePairs
  /\ (Len(Given) = 1 /\ OnlyWristLow(Given[1])) =>
       /\ Count("fill") = 16 /\ Count("stroke") = 16
       /\ \A m \in 1..Len(log) : log[m].op \in {"fill", "stroke"} => log[m].i # 9
       /\ Count("line") = 15
       /\ Segments = TablePairs \ {<<7, 9>>}

\* The pose with only the left wrist below the threshold was rendered.
C5_Witness ==
  /\ Len(Given) = 1 /\ OnlyWristLow(Given[1])
  /\ Count("line") = 15 /\ Count("fill") = 16

\* --------------------------------------------------------------------- C6
\* C6: once flip(W) has been called exactly once, on the identity transform,
\* every later draw and clear leaves the transform as flip set it: whatever a
\* call paints at logical (c, y) lands on the surface at (W - c, y).
InkOps == {"drawImage", "clearRect", "fill", "stroke", "line"}

C6_Mirror ==
  Len(flips) = 1 =>
    /\ transform = [a |-> -1, d |-> 1, e |-> flips[1], f |-> 0]
    /\ \A m \in 1..Len(log) :
         log[m].op \in InkOps =>
           /\ log[m].sx = flips[1] - log[m].x
           /\ log[m].sy = log[m].y
           /\ log[m].sx2 = flips[1] - log[m].x2
           /\ log[m].sy2 = log[m].y2

\* After the flip a pose was rendered again, circles and segments included.
C6_Witness ==
  /\ Len(flips) = 1
  /\ IsDraw /\ prevSame.valid
  /\ \E m \in 1..Len(log) : log[m].op = "line" /\ log[m].sx # log[m].x
  /\ \E m \in 1..Len(log) : log[m].op = "fill"

\* --------------------------------------------------------------------- C7
\* C7: a pose without keypoints (null) in the list gets no context call at
\* all, neither a draw nor a style change, and raises no error; the poses
\* around it are drawn in full.
NumVisible(pose) ==
  Cardinality({i \in 1..17 : Visible(pose.keypoints.v[i])})

NumPairs(pose) ==
  Cardinality({m \in 1..Len(SKELETON_CONNECTIONS) :
     /\ Visible(pose.keypoints.v[SKELETON_CONNECTIONS[m][1] + 1])
     /\ Visible(pose.keypoints.v[SKELETON_CONNECTIONS[m][2] + 1])})

NumStyleOps(k) ==
  LET Test(c) == c.op \in StyleOps IN Len(SelectSeq(IssuedFor(k), Test))

FullyDrawn(k) ==
  /\ Len(Issued("fill", k)) = NumVisible(Given[k])
  /\ Len(Issued("stroke", k)) = NumVisible(Given[k])
  /\ Len(Issued("line", k)) = NumPairs(Given[k])
  /\ NumStyleOps(k) = 8

C7_NullKeypoints ==
  \A k \in 1..Len(Given) :
    ~HasKeypoints(Given[k]) =>
      /\ Len(IssuedFor(k)) = 0
      /\ (\A m \in 1..Len(Given) : ~TooShort(Given[m])) => ~err
      /\ \A m \in 1..Len(Given) :
           (m # k /\ Reached(m) /\ WellFormed(Given[m])) => FullyDrawn(m)

\* A list was rendered with a null-keypoints pose between two drawn poses.
C7_Witness ==
  \E k \in 2..(Len(Given) - 1) :
    /\ ~HasKeypoints(Given[k])
    /\ Len(Issued("line", k - 1)) > 0
    /\ Len(Issued("line", k + 1)) > 0
    /\ ~err

\* --------------------------------------------------------------------- C8
\* C8: a render of the same poses as the render before it issues the same
\* context calls with the same fill colour, stroke colour and line width in
\* effect at every fill and stroke, and ends the same way, whatever styles the
\* context was left with; the stroke colour is White and the line width 2
\* throughout.
C8_Repeatable ==
  (IsDraw /\ prevSame.valid) =>
    /\ Logical(log) = prevSame.log
    /\ err = prevSame.err
    /\ \A m \in 1..Len(log) :
         Paints(log[m]) => log[m].stroke = "White" /\ log[m].lw = 2

\* The same non-empty list was rendered twice, circles and segments included.
C8_Witness ==
  /\ IsDraw /\ prevSame.valid
  /\ Len(Given) >= 2
  /\ \E m \in 1..Len(log) : log[m].op = "line" /\ log[m].pose = 2
  /\ \E m \in 1..Len(log) : log[m].op = "stroke" /\ log[m].pose = 1

\* --------------------------------------------------------------------- C9
\* C9: in one render the frame is drawn first; then the poses in list order,
\* all of pose k before any of pose k+1; within a pose every circle before
\* every segment; and the circles in the order 0, 1,3,...,15, 2,4,...,16.
\* Each painted entry gets the key << pose, phase, position >>; the keys must
\* not decrease along the log, and two fills never share a key.
EdgePos(c) ==
  CHOOSE m \in 1..Len(SKELETON_CONNECTIONS) :
    SKELETON_CONNECTIONS[m] = <<c.i, c.j>>

Key(c) ==
  IF c.op = "drawImage" THEN <<0, 0, 0>>
  ELSE IF c.op = "line" THEN <<c.pose, 2, EdgePos(c)>>
  ELSE <<c.pose, 1, Rank(c.i)>>

KeyLeq(a, b) ==
  \/ a[1] < b[1]
  \/ a[1] = b[1] /\ a[2] < b[2]
  \/ a[1] = b[1] /\ a[2] = b[2] /\ a[3] <= b[3]

Painted ==
  LET Test(c) == c.op \in {"drawImage", "fill", "stroke", "line"}
  IN  SelectSeq(log, Test)

C9_Order ==
  IsDraw =>
    /\ Len(Painted) >= 1
    /\ Painted[1].op = "drawImage"
    /\ \A m \in 1..(Len(Painted) - 1) :
         /\ KeyLeq(Key(Painted[m]), Key(Painted[m + 1]))
         /\ Painted[m + 1].op \in {"fill", "drawImage"} =>
              Key(Painted[m]) # Key(Painted[m + 1])
    /\ \A m \in 1..Len(Painted) :
         Painted[m].op = "fill" =>
           /\ Painted[m].pose \in 1..Len(Given)
           /\ Painted[m].x = Given[Painted[m].pose].keypoints.v[Painted[m].i + 1].x

\* Two poses were rendered, each with circles of all three groups and segments.
C9_Witness ==
  /\ IsDraw /\ ~err /\ Len(Given) >= 2
  /\ \A k \in 1..2 :
       /\ Len(Issued("line", k)) > 0
       /\ \E a, b, c \in 1..Len(log) :
            /\ log[a].op = "fill" /\ log[a].pose = k /\ log[a].i = 0
            /\ log[b].op = "fill" /\ log[b].pose = k /\ log[b].i % 2 = 1
            /\ log[c].op = "fill" /\ log[c].pose = k /\ log[c].i > 0
            /\ log[c].i % 2 = 0

\* -------------------------------------------------------------------- C10
\* C10: when a reached pose has n < 17 keypoints the render ends with an error
\* at the first index >= n in keypoint draw order.  The frame, the poses before
\* it and this pose's circles for the indices that precede the failing one stay
\* drawn; this pose gets no segment and later poses get nothing; the styles are
\* as last set (fill colour of the failing index's group, White stroke, width 2).
FailRank(n) ==
  CHOOSE r \in 1..17 :
    DrawOrder[r] >= n /\ \A q \in 1..(r - 1) : DrawOrder[q] < n

CircleIndices(op, k) ==
  {log[m].i : m \in {q \in 1..Len(log) : log[q].op = op /\ log[q].pose = k}}

C10_ShortPose ==
  \A k \in 1..Len(Given) :
    (Reached(k) /\ TooShort(Given[k])) =>
      LET kps == Given[k].keypoints.v
          fail == FailRank(Len(kps))
          drawn == {DrawOrder[q] : q \in {r \in 1..(fail - 1) :
                                            Visible(kps[DrawOrder[r] + 1])}}
      IN  /\ err
          /\ log[1].op = "drawImage"
          /\ \A m \in 1..(k - 1) : WellFormed(Given[m]) => FullyDrawn(m)
          /\ CircleIndices("fill", k) = drawn
          /\ CircleIndices("stroke", k) = drawn
          /\ Len(Issued("fill", k)) = Cardinality(drawn)
          /\ Len(Issued("stroke", k)) = Cardinality(drawn)
          /\ Len(Issued("line", k)) = 0
          /\ \A m \in 1..Len(log) : log[m].pose <= k
          /\ fillStyle = ColorOf(DrawOrder[fail])
          /\ strokeStyle = "White"
          /\ lineWidth = 2

\* A short pose in the middle of a list was reached and left some circles.
C10_Witness ==
  \E k \in 2..(Len(Given) - 1) :
    /\ Reached(k) /\ TooShort(Given[k])
    /\ Len(Issued("fill", k)) >= 1
    /\ Len(Issued("line", k - 1)) >= 1
    /\ err

====
